---- MODULE Spec2Model ----
(***************************************************************************)
(* GenerateTiles: the slippy-map tile pyramid generator, in its two        *)
(* variants: TileGenerator/generator.py (sequential filter loop) and       *)
(* VectorTileGenerator/generator.py (joblib worker-pool map).              *)
(*                                                                         *)
(* Number representation.                                                  *)
(*  - Degrees are integers in micro-degrees (1 degree = 10^6): the         *)
(*    precision at which the geojson Feature stores every coordinate the   *)
(*    intersection predicate reads.                                        *)
(*  - Projected meters are exact fractions <<n, d>> of pi*6378137 (half    *)
(*    the circumference 2*pi*6378137/2.0 that the source subtracts).       *)
(***************************************************************************)
EXTENDS Integers, Sequences, FiniteSets

VARIABLES
    strategy,      \* which variant is in use: "sequential" or "parallel"
    collapsedRingIntersects, \* the answer of this build's geometry library for a zero-area ring
    pc,            \* "new", "error", "ready", "loop", "mapping", "returned", "raised"
    args,          \* the arguments of the constructor call
    self,          \* the instance's attributes (its __dict__)
    err,           \* the message of the ValueError raised, "" when none
    overall_tiles, \* generate(): the result dict, as <<key, value>> pairs in insertion order
    z,             \* generate(): the zoom level the for loop took last (minZoom - 1 before the first)
    tiles,         \* generate(): the candidates of the current zoom level
    results,       \* Parallel(...): the results received so far, by task position
    nextTask,      \* Parallel(...): the position of the next task of the queue
    n_jobs,        \* Parallel(...): the size of the pool, joblib.cpu_count() of the host (0: not read yet)
    running,       \* Parallel(...): the positions of the tasks the workers are evaluating
    evals          \* number of calls of tile_bounds_within_overall_bounds so far

vars == <<strategy, collapsedRingIntersects, pc, args, self, err, overall_tiles,
          z, tiles, results, nextTask, n_jobs, running, evals>>

(***************************************************************************)
(* Bounds of the model, units.                                             *)
(***************************************************************************)
\* the sequential generate() is run for configurations with maxZoom <= MaxZ
MaxZ == 2

\* the hosts have 1 .. MaxJobs CPUs: the sizes of the joblib pool
MaxJobs == 4

\* the parallel generate() is run for these values of maxZoom: a Parallel call
\* has 16 tasks at most
ParallelZooms == {1, 2}

D(deg) == deg * 1000000

Max(a, b) == IF a >= b THEN a ELSE b

Min(a, b) == IF a <= b THEN a ELSE b

World == <<D(-180), D(-90), D(180), D(90)>>

(***************************************************************************)
(* __init__: the validation chain.                                         *)
(***************************************************************************)
\* the two variants name the parameters minZoom/maxZoom and min_zoom/max_zoom
Msg(seqText, parText) == IF strategy = "sequential" THEN seqText ELSE parText

\* the checks of the zoom levels; "" when all pass
zoom_error(minZoom, maxZoom) ==
    IF minZoom > 20 THEN
        Msg("minZoom must be less than or equal to 20",
            "min_zoom must be less than or equal to 20")
    ELSE IF minZoom < 1 THEN
        Msg("minZoom must be greater than or equal to 1",
            "min_zoom must be greater than or equal to 1")
    ELSE IF maxZoom < 1 THEN
        Msg("maxZoom must be greater than or equal to 1",
            "max_zoom must be greater than or equal to 1")
    ELSE IF maxZoom > 20 THEN
        Msg("maxZoom must be greater than or equal to 20",
            "max_zoom must be greater than or equal to 20")
    ELSE IF minZoom > maxZoom THEN
        Msg("minZoom must be less than or equal to maxZoom",
            "min_zoom must be less than or equal to max_zoom")
    ELSE IF maxZoom < minZoom THEN
        Msg("maxZoom must be greater than or equal to minZoom",
            "max_zoom must be greater than or equal to min_zoom")
    ELSE ""

\* the checks of the bounds, which follow; "" when all pass
bounds_error(bounds) ==
    IF Len(bounds) # 4 THEN
        "Incorrect length for bounds. Ex.[-180, -90, 180, 90]"
    ELSE IF bounds[1] < D(-180) THEN
        "Minimum x bounds must be greater than or equal to -180"
    ELSE IF bounds[2] < D(-90) THEN
        "Minimum y bounds must be greater than or equal to -90"
    ELSE IF bounds[3] > D(180) THEN
        "Maximum x bounds must be less than or equal to 180"
    ELSE IF bounds[4] > D(90) THEN
        "Maximum y bounds must be less than or equal to 90"
    ELSE IF bounds[1] > bounds[3] THEN
        "Minimum x bounds must be less than maximum x bounds"
    ELSE IF bounds[2] > bounds[4] THEN
        "Minimum y bounds must be less than maximum y bounds"
    ELSE ""

\* mutant: the bounds are checked before the zoom levels
init_error_bounds_first(minZoom, maxZoom, bounds) ==
    IF bounds_error(bounds) # "" THEN bounds_error(bounds)
    ELSE zoom_error(minZoom, maxZoom)

\* the message of the first failing check of __init__, "" when none fails
init_error(minZoom, maxZoom, bounds) ==
    IF zoom_error(minZoom, maxZoom) # "" THEN zoom_error(minZoom, maxZoom)
    ELSE bounds_error(bounds)

(***************************************************************************)
(* Projection math and tile geometry.                                      *)
(***************************************************************************)
\* a raised ValueError("Invalid tile"), where a value was expected
InvalidTile == <<"ValueError: Invalid tile">>

IsRaise(v) == Len(v) = 1

\* res = (2*pi*6378137/256) / 2^z is 1/(128 * 2^z) of pi*6378137
pixels_to_meters(pz, x, y) ==
    LET d  == 128 * (2 ^ pz)
        mx == <<x - d, d>>
        my == <<y - d, d>>
    IN <<mx, <<-my[1], d>>>>

tile_is_valid(tz, x, y) ==
    LET size == 2 ^ tz
    IN IF x >= size THEN FALSE
       ELSE IF y >= size THEN FALSE
       ELSE IF x < 0 \/ y < 0 THEN FALSE
       ELSE TRUE

tile_bounds(tz, x, y) ==
    IF tile_is_valid(tz, x, y)
    THEN LET mins == pixels_to_meters(tz, x * 256, (y + 1) * 256)
             maxs == pixels_to_meters(tz, (x + 1) * 256, y * 256)
         IN <<mins, maxs>>
    ELSE InvalidTile

\* 180/pi * (2*atan(exp(k/16 * pi)) - pi/2), rounded to six decimals, k = 0..16
GudermannianMicro ==
    <<11178402, 21943046, 31952162, 40979898, 48922499, 55776573, 61606396,
      66513260, 70612614, 74019543, 76840816, 79171335, 81093214, 82676285,
      83979259, 85051129>>

\* the latitude of the fraction n/d (a multiple of 1/16) of pi*6378137
LatMicro(n, d) ==
    LET k == (n * 16) \div d
    IN IF k = 0 THEN 0
       ELSE IF k > 0 THEN GudermannianMicro[k]
       ELSE -GudermannianMicro[-k]

\* (n/d) * 180.0 in micro-degrees, d = 128 * p: 180 * 10^6 / 128 = 1406250
LngMicro(n, d) ==
    LET p == d \div 128
    IN (n \div p) * 1406250 + ((n % p) * 1406250) \div p

meters_to_lat_lng(coord) ==
    LET lng == LngMicro(coord[1][1], coord[1][2])
        lat == LatMicro(coord[2][1], coord[2][2])
    IN <<lng, lat>>

bounds_from_tile(tz, x, y) ==
    LET tb == tile_bounds(tz, x, y)
    IN IF IsRaise(tb) THEN InvalidTile
       ELSE LET mins == meters_to_lat_lng(tb[1])
                maxs == meters_to_lat_lng(tb[2])
            IN <<mins[1], mins[2], maxs[1], maxs[2]>>

(***************************************************************************)
(* The enumeration of a zoom level.                                        *)
(***************************************************************************)
RECURSIVE zoom_generator_y(_, _, _, _, _)
zoom_generator_y(gz, x, y, size, acc) ==
    IF y >= size THEN acc
    ELSE zoom_generator_y(gz, x, y + 1, size, Append(acc, <<gz, x, y>>))

RECURSIVE zoom_generator_x(_, _, _, _)
zoom_generator_x(gz, x, size, acc) ==
    IF x >= size THEN acc
    ELSE zoom_generator_x(gz, x + 1, size, zoom_generator_y(gz, x, 0, size, acc))

\* mutant: the loops nested the other way round (y-major)
zoom_generator_ymajor(gz) ==
    [i \in 1 .. (2 ^ gz) * (2 ^ gz) |-> <<gz, (i - 1) % (2 ^ gz), (i - 1) \div (2 ^ gz)>>]

\* mutant: range(size + 1) in the outer loop
zoom_generator_offbyone(gz) == zoom_generator_x(gz, 0, 2 ^ gz + 1, <<>>)

zoom_generator(gz) == zoom_generator_x(gz, 0, 2 ^ gz, <<>>)

(***************************************************************************)
(* The containment predicate.                                              *)
(***************************************************************************)
\* the closed 5-point ring of a box
Ring(b) ==
    << <<b[1], b[2]>>, <<b[3], b[2]>>, <<b[3], b[4]>>, <<b[1], b[4]>>, <<b[1], b[2]>> >>

\* a ring of zero area: an invalid polygon
Collapsed(r) == r[1][1] = r[3][1] \/ r[1][2] = r[3][2]

\* turfpy.transformation.intersect of two rectangle features: the intersection
\* (a polygon, a line or a point) when the closed rectangles meet, None
\* otherwise; on a zero-area ring the answer is the build's.
intersect(a, b) ==
    /\ a[1][1] <= b[3][1]
    /\ b[1][1] <= a[3][1]
    /\ a[1][2] <= b[3][2]
    /\ b[1][2] <= a[3][2]
    /\ (Collapsed(a) \/ Collapsed(b)) => collapsedRingIntersects

tile_bounds_within_overall_bounds(tile_bnds, overlap_bounds) ==
    LET a == Ring(tile_bnds)
        b == Ring(overlap_bounds)
    IN IF intersect(a, b) THEN TRUE ELSE FALSE

(***************************************************************************)
(* The inputs of the constructor.                                          *)
(***************************************************************************)
ZoomInputs == (0 .. MaxZ) \cup {20, 21}

\* the latitude 66.51326 of a tile edge of zoom 2
EdgeLat == GudermannianMicro[8]

BoundsInputs ==
    { World,
      <<D(-10), D(-10), D(10), D(10)>>,
      <<0, 0, 0, 0>>,
      <<0, 0, D(10), D(10)>>,
      <<0, D(-10), 0, D(10)>>,
      <<D(10), D(10), D(20), D(20)>>,
      <<D(-180), D(-90), 0, 0>>,
      <<D(90), 0, D(180), EdgeLat>>,
      <<D(-90), 1, D(-45), EdgeLat - 1>>,
      <<D(-180), D(-90), D(180), D(-86)>>,
      <<D(-180), D(-90), D(180)>>,
      <<D(-180), D(-90), D(180), D(90), 0>>,
      <<D(-181), D(-90), D(180), D(90)>>,
      <<D(-180), D(-91), D(180), D(90)>>,
      <<D(-180), D(-90), D(181), D(90)>>,
      <<D(-180), D(-90), D(180), D(91)>>,
      <<D(10), D(-90), D(-10), D(90)>>,
      <<D(-10), D(10), D(10), D(-10)>>,
      <<D(-181), D(-91), D(181), D(91)>>,
      <<D(-180), D(-91), D(181), D(90)>>,
      <<D(10), D(-90), D(-10), D(91)>>,
      <<D(10), D(20), D(-10), D(-20)>>,
      <<D(-181), D(-90), D(-190), D(90)>> }

(***************************************************************************)
(* generate(), sequential variant.                                         *)
(***************************************************************************)
\* overall_tiles[k] = v on a dict kept as <<key, value>> pairs in insertion order
DictSet(dict, k, v) ==
    IF \E i \in 1 .. Len(dict) : dict[i][1] = k
    THEN [i \in 1 .. Len(dict) |-> IF dict[i][1] = k THEN <<k, v>> ELSE dict[i]]
    ELSE Append(dict, <<k, v>>)

\* mutant: the survivors are inserted at the front of valid_tiles
RECURSIVE filter_loop_prepend(_, _, _)
filter_loop_prepend(ts, i, valid_tiles) ==
    IF i > Len(ts) THEN [raised |-> FALSE, valid_tiles |-> valid_tiles]
    ELSE LET tile == ts[i]
             tile_bnds == bounds_from_tile(tile[1], tile[2], tile[3])
         IN IF IsRaise(tile_bnds) THEN [raised |-> TRUE, valid_tiles |-> valid_tiles]
            ELSE IF tile_bounds_within_overall_bounds(tile_bnds, self.bounds)
                 THEN filter_loop_prepend(ts, i + 1, <<tile>> \o valid_tiles)
                 ELSE filter_loop_prepend(ts, i + 1, valid_tiles)

\* the loop "for tile in tiles" with its append; raised when bounds_from_tile raises
RECURSIVE filter_loop(_, _, _)
filter_loop(ts, i, valid_tiles) ==
    IF i > Len(ts) THEN [raised |-> FALSE, valid_tiles |-> valid_tiles]
    ELSE LET tile == ts[i]
             tile_bnds == bounds_from_tile(tile[1], tile[2], tile[3])
         IN IF IsRaise(tile_bnds) THEN [raised |-> TRUE, valid_tiles |-> valid_tiles]
            ELSE IF tile_bounds_within_overall_bounds(tile_bnds, self.bounds)
                 THEN filter_loop(ts, i + 1, Append(valid_tiles, tile))
                 ELSE filter_loop(ts, i + 1, valid_tiles)

\* mutant: the fast path is never taken
needs_filter_always == TRUE

\* "if self.bounds != [-180, -90, 180, 90]": the filtered path is taken
needs_filter == self.bounds # World

\* the loop "for z in range(self.minZoom, self.maxZoom+1)" from lz on
RECURSIVE generate_loop(_, _)
generate_loop(lz, acc) ==
    IF lz > self.maxZoom THEN acc
    ELSE LET ts == zoom_generator(lz)
         IN IF needs_filter
            THEN LET f == filter_loop(ts, 1, <<>>)
                 IN IF f.raised
                    THEN [acc EXCEPT !.err = "Invalid tile", !.z = lz, !.tiles = ts]
                    ELSE generate_loop(lz + 1,
                            [overall_tiles |-> DictSet(acc.overall_tiles, lz, f.valid_tiles),
                             evals |-> acc.evals + Len(ts),
                             err |-> "", z |-> lz, tiles |-> ts])
            ELSE generate_loop(lz + 1,
                    [acc EXCEPT !.overall_tiles = DictSet(@, lz, ts),
                                !.z = lz, !.tiles = ts])

\* generate() of TileGenerator: the dict returned, with the locals z and tiles
\* as the loop leaves them and the number of predicate calls made
generate ==
    generate_loop(self.minZoom,
        [overall_tiles |-> <<>>, evals |-> 0, err |-> "",
         z |-> self.minZoom - 1, tiles |-> <<>>])

(***************************************************************************)
(* generate(), parallel variant.                                           *)
(***************************************************************************)
\* mutant: the two branches exchanged
validate_tile_inverted(tile) ==
    LET tile_bnds == bounds_from_tile(tile[1], tile[2], tile[3])
    IN IF IsRaise(tile_bnds) THEN InvalidTile
       ELSE IF tile_bounds_within_overall_bounds(tile_bnds, self.bounds)
            THEN <<>>
            ELSE tile

validate_tile(tile) ==
    LET tile_bnds == bounds_from_tile(tile[1], tile[2], tile[3])
    IN IF IsRaise(tile_bnds) THEN InvalidTile
       ELSE IF tile_bounds_within_overall_bounds(tile_bnds, self.bounds)
            THEN tile
            ELSE <<>>

\* Parallel(...)(...) returns once every task has delivered its result
AllDelivered == DOMAIN results = 1 .. Len(tiles)

\* the list Parallel returns: the results in the order of the tasks
filtered_tiles == [i \in 1 .. Len(tiles) |-> results[i]]

\* list(filter(lambda x: len(x) > 0, filtered_tiles))
NonEmpty(x) == Len(x) > 0

(***************************************************************************)
(* The state machine.                                                      *)
(***************************************************************************)
NoResults == [i \in {} |-> <<>>]

Init ==
    /\ strategy \in {"sequential", "parallel"}
    /\ collapsedRingIntersects = FALSE
    /\ pc = "new"
    /\ args = <<>>
    /\ self = [a \in {} |-> 0]
    /\ err = ""
    /\ overall_tiles = <<>>
    /\ z = 0
    /\ tiles = <<>>
    /\ results = NoResults
    /\ nextTask = 0
    /\ n_jobs = 0
    /\ running = {}
    /\ evals = 0

\* GenerateTiles(minZoom, maxZoom, bounds): the attributes are assigned, then
\* the validation chain runs.  Bounds of zero area make an invalid polygon
\* ring: what the library answers for it is left open, and fixed here, where
\* the instance that will build the ring is made.
GenerateTiles_init(minZoom, maxZoom, bounds) ==
    /\ pc = "new"
    /\ collapsedRingIntersects' \in
          IF init_error(minZoom, maxZoom, bounds) = "" /\ Collapsed(Ring(bounds))
          THEN BOOLEAN
          ELSE {collapsedRingIntersects}
    /\ args' = <<minZoom, maxZoom, bounds>>
    /\ self' = [minZoom |-> minZoom, maxZoom |-> maxZoom, bounds |-> bounds]
    /\ err' = init_error(minZoom, maxZoom, bounds)
    /\ pc' = IF err' = "" THEN "ready" ELSE "error"
    /\ UNCHANGED <<strategy, overall_tiles, z, tiles, results, nextTask, n_jobs,
                   running, evals>>

\* TileGenerator: generate(), start to return
GenerateSequential ==
    /\ pc = "ready"
    /\ strategy = "sequential"
    /\ self.maxZoom <= MaxZ
    /\ LET r == generate
       IN /\ overall_tiles' = r.overall_tiles
          /\ evals' = r.evals
          /\ err' = r.err
          /\ z' = r.z
          /\ tiles' = r.tiles
          /\ pc' = IF r.err = "" THEN "returned" ELSE "raised"
    /\ UNCHANGED <<strategy, collapsedRingIntersects, args, self, results,
                   nextTask, n_jobs, running>>

\* VectorTileGenerator: generate() is entered
GenerateParallel ==
    /\ pc = "ready"
    /\ strategy = "parallel"
    /\ self.maxZoom \in ParallelZooms
    /\ pc' = "loop"
    /\ overall_tiles' = <<>>
    /\ z' = self.minZoom - 1
    /\ UNCHANGED <<strategy, collapsedRingIntersects, args, self, err, tiles,
                   results, nextTask, n_jobs, running, evals>>

\* one turn of "for z in range(...)": enumerate, then the fast path or the
\* start of the Parallel call
ParZoom ==
    /\ pc = "loop"
    /\ z < self.maxZoom
    /\ z' = z + 1
    /\ tiles' = zoom_generator(z + 1)
    /\ IF needs_filter
       THEN /\ pc' = "mapping"
            /\ results' = NoResults
            /\ n_jobs' \in 1 .. MaxJobs
            /\ running' = 1 .. Min(Len(tiles'), n_jobs')
            /\ nextTask' = Min(Len(tiles'), n_jobs') + 1
            /\ UNCHANGED overall_tiles
       ELSE /\ overall_tiles' = DictSet(overall_tiles, z + 1, tiles')
            /\ UNCHANGED <<pc, results, nextTask, n_jobs, running>>
    /\ UNCHANGED <<strategy, collapsedRingIntersects, args, self, err, evals>>

\* a worker finishes validate_tile on task i, delivers the result and takes
\* the next task of the queue
WorkerFinish(i) ==
    /\ pc = "mapping"
    /\ i \in running
    /\ LET r == validate_tile(tiles[i])
       IN IF IsRaise(r)
          THEN /\ pc' = "raised"
               /\ err' = "Invalid tile"
               /\ running' = running \ {i}
               /\ UNCHANGED <<results, evals, nextTask>>
          ELSE /\ results' = [j \in DOMAIN results \cup {i} |->
                                 IF j = i THEN r ELSE results[j]]
               /\ evals' = evals + 1
               /\ IF nextTask <= Len(tiles)
                  THEN /\ running' = (running \ {i}) \cup {nextTask}
                       /\ nextTask' = nextTask + 1
                  ELSE /\ running' = running \ {i}
                       /\ UNCHANGED nextTask
               /\ UNCHANGED <<pc, err>>
    /\ UNCHANGED <<strategy, collapsedRingIntersects, args, self, overall_tiles,
                   z, tiles, n_jobs>>

\* mutant: the call is left with the result of the first task alone
ParCollect_first ==
    /\ pc = "mapping"
    /\ 1 \in DOMAIN results
    /\ overall_tiles' = DictSet(overall_tiles, z, SelectSeq(<<results[1]>>, NonEmpty))
    /\ pc' = "loop"
    /\ UNCHANGED <<strategy, collapsedRingIntersects, args, self, err, z, tiles,
                   results, nextTask, n_jobs, running,
                   evals>>

\* the Parallel call returns; the empty results are removed and the entry written
ParCollect ==
    /\ pc = "mapping"
    /\ AllDelivered
    /\ overall_tiles' = DictSet(overall_tiles, z, SelectSeq(filtered_tiles, NonEmpty))
    /\ pc' = "loop"
    /\ UNCHANGED <<strategy, collapsedRingIntersects, args, self, err, z, tiles,
                   results, nextTask, n_jobs, running,
                   evals>>

\* the loop is exhausted: return overall_tiles
ParReturn ==
    /\ pc = "loop"
    /\ z >= self.maxZoom
    /\ pc' = "returned"
    /\ UNCHANGED <<strategy, collapsedRingIntersects, args, self, err,
                   overall_tiles, z, tiles, results, nextTask, n_jobs, running,
                   evals>>

Next ==
    \/ \E minZoom \in ZoomInputs, maxZoom \in ZoomInputs, bounds \in BoundsInputs :
          GenerateTiles_init(minZoom, maxZoom, bounds)
    \/ GenerateSequential
    \/ GenerateParallel
    \/ ParZoom
    \/ \E i \in running : WorkerFinish(i)
    \/ ParCollect
    \/ ParReturn

Spec == Init /\ [][Next]_vars

(***************************************************************************)
(* Vocabulary of the properties.                                           *)
(***************************************************************************)
Keys(dict) == [i \in 1 .. Len(dict) |-> dict[i][1]]

HasKey(dict, k) == \E i \in 1 .. Len(dict) : dict[i][1] = k

Get(dict, k) == dict[CHOOSE i \in 1 .. Len(dict) : dict[i][1] = k][2]

\* minZoom, minZoom + 1, ..., maxZoom
ZoomRange ==
    [i \in 1 .. (self.maxZoom - self.minZoom + 1) |-> self.minZoom + i - 1]

Grid(k) == 0 .. (2 ^ k) - 1

Candidates(k) == {<<k, x, y>> : x \in Grid(k), y \in Grid(k)}

\* position of a tile in the x-major enumeration of its zoom level
Pos(t) == t[2] * (2 ^ t[1]) + t[3] + 1

\* the x-major list of the 4^k tiles of zoom k
XMajor(list, k) ==
    /\ Len(list) = 4 ^ k
    /\ \A x \in Grid(k), y \in Grid(k) : list[x * (2 ^ k) + y + 1] = <<k, x, y>>

Distinct(list) ==
    \A i \in 1 .. Len(list), j \in 1 .. Len(list) : i # j => list[i] # list[j]

\* the intersection predicate on the computed bounds of a tile
Kept(t) ==
    tile_bounds_within_overall_bounds(bounds_from_tile(t[1], t[2], t[3]), self.bounds)

Filtered == pc = "returned" /\ self.bounds # World

(***************************************************************************)
(* C1: on the filtered path the parallel generate() returns, at every zoom *)
(* level, the very list the sequential generate() returns for the same     *)
(* configuration, whatever the order in which the workers took and         *)
(* finished their tiles.                                                   *)
(***************************************************************************)
ParallelEqualsSequential ==
    (strategy = "parallel" /\ Filtered) =>
        /\ generate.err = ""
        /\ overall_tiles = generate.overall_tiles

\* a parallel run over zoom 1 and 2 that kept some tiles and dropped others
ParallelEqualsSequentialWitness ==
    /\ strategy = "parallel"
    /\ Filtered
    /\ self.minZoom = 1
    /\ self.maxZoom = 2
    /\ Len(Get(overall_tiles, 2)) \in 1 .. 15

(***************************************************************************)
(* C2: on the filtered path the keys of the result are minZoom..maxZoom in *)
(* ascending insertion order, and the value of key k is the subsequence of *)
(* the enumeration of zoom k made of exactly the tiles the predicate       *)
(* accepts: nothing else, nothing twice, x-major order kept.               *)
(***************************************************************************)
FilteredResultExact ==
    Filtered =>
        /\ Keys(overall_tiles) = ZoomRange
        /\ \A i \in 1 .. Len(overall_tiles) :
              LET k == overall_tiles[i][1]
                  v == overall_tiles[i][2]
              IN /\ \A j \in 1 .. Len(v) : v[j] \in Candidates(k) /\ Kept(v[j])
                 /\ \A t \in Candidates(k) : Kept(t) => \E j \in 1 .. Len(v) : v[j] = t
                 /\ \A j \in 1 .. Len(v) - 1 : Pos(v[j]) < Pos(v[j + 1])

\* a sequential run over zoom 1 and 2 that kept several tiles and dropped others
FilteredResultExactWitness ==
    /\ strategy = "sequential"
    /\ Filtered
    /\ self.minZoom = 1
    /\ self.maxZoom = 2
    /\ Len(Get(overall_tiles, 2)) \in 2 .. 15

(***************************************************************************)
(* C3: with the bounds equal to the world extent, generate() returns for   *)
(* every zoom level the whole x-major enumeration and never calls the      *)
(* intersection predicate; for minZoom = maxZoom = 2 the result is the 16  *)
(* tiles [2,0,0] .. [2,3,3].                                               *)
(***************************************************************************)
Zoom2Tiles ==
    << <<2, 0, 0>>, <<2, 0, 1>>, <<2, 0, 2>>, <<2, 0, 3>>,
       <<2, 1, 0>>, <<2, 1, 1>>, <<2, 1, 2>>, <<2, 1, 3>>,
       <<2, 2, 0>>, <<2, 2, 1>>, <<2, 2, 2>>, <<2, 2, 3>>,
       <<2, 3, 0>>, <<2, 3, 1>>, <<2, 3, 2>>, <<2, 3, 3>> >>

WorldFastPath ==
    (pc \in {"loop", "mapping", "returned", "raised"} /\ self.bounds = World) =>
        /\ evals = 0
        /\ pc \in {"loop", "returned"}
        /\ \A i \in 1 .. Len(overall_tiles) :
              XMajor(overall_tiles[i][2], overall_tiles[i][1])
        /\ pc = "returned" =>
              /\ Keys(overall_tiles) = ZoomRange
              /\ (self.minZoom = 2 /\ self.maxZoom = 2) =>
                    overall_tiles = << <<2, Zoom2Tiles>> >>

WorldFastPathWitness ==
    /\ pc = "returned"
    /\ self.bounds = World
    /\ self.minZoom = 2
    /\ self.maxZoom = 2
    /\ Len(overall_tiles[1][2]) = 16

(***************************************************************************)
(* C4: the constructor raises exactly when one of the ten rules is         *)
(* violated, and the error is that of the first violated rule, in the      *)
(* order: minZoom in [1,20]; maxZoom in [1,20]; minZoom <= maxZoom; four   *)
(* components; b0 >= -180; b1 >= -90; b2 <= 180; b3 <= 90; b0 <= b2;       *)
(* b1 <= b3.                                                               *)
(***************************************************************************)
RuleViolated(r, minZoom, maxZoom, bounds) ==
    CASE r = 1 -> ~(1 <= minZoom /\ minZoom <= 20)
      [] r = 2 -> ~(1 <= maxZoom /\ maxZoom <= 20)
      [] r = 3 -> ~(minZoom <= maxZoom)
      [] r = 4 -> Len(bounds) # 4
      [] r = 5 -> Len(bounds) = 4 /\ ~(bounds[1] >= D(-180))
      [] r = 6 -> Len(bounds) = 4 /\ ~(bounds[2] >= D(-90))
      [] r = 7 -> Len(bounds) = 4 /\ ~(bounds[3] <= D(180))
      [] r = 8 -> Len(bounds) = 4 /\ ~(bounds[4] <= D(90))
      [] r = 9 -> Len(bounds) = 4 /\ ~(bounds[1] <= bounds[3])
      [] r = 10 -> Len(bounds) = 4 /\ ~(bounds[2] <= bounds[4])

ViolatedRules == {r \in 1 .. 10 : RuleViolated(r, args[1], args[2], args[3])}

FirstViolated == CHOOSE r \in ViolatedRules : \A q \in ViolatedRules : r <= q

\* the rule an error message is about
RuleOf(msg) ==
    CASE msg \in {"minZoom must be less than or equal to 20",
                  "min_zoom must be less than or equal to 20",
                  "minZoom must be greater than or equal to 1",
                  "min_zoom must be greater than or equal to 1"} -> 1
      [] msg \in {"maxZoom must be greater than or equal to 1",
                  "max_zoom must be greater than or equal to 1",
                  "maxZoom must be greater than or equal to 20",
                  "max_zoom must be greater than or equal to 20"} -> 2
      [] msg \in {"minZoom must be less than or equal to maxZoom",
                  "min_zoom must be less than or equal to max_zoom",
                  "maxZoom must be greater than or equal to minZoom",
                  "max_zoom must be greater than or equal to min_zoom"} -> 3
      [] msg = "Incorrect length for bounds. Ex.[-180, -90, 180, 90]" -> 4
      [] msg = "Minimum x bounds must be greater than or equal to -180" -> 5
      [] msg = "Minimum y bounds must be greater than or equal to -90" -> 6
      [] msg = "Maximum x bounds must be less than or equal to 180" -> 7
      [] msg = "Maximum y bounds must be less than or equal to 90" -> 8
      [] msg = "Minimum x bounds must be less than maximum x bounds" -> 9
      [] msg = "Minimum y bounds must be less than maximum y bounds" -> 10
      [] OTHER -> 0

FirstViolatedRuleReported ==
    pc # "new" =>
        /\ (pc = "error") <=> (ViolatedRules # {})
        /\ pc = "error" => RuleOf(err) = FirstViolated
        /\ args[1] = 21 => pc = "error"
        /\ args[3] = <<D(10), D(-90), D(-10), D(90)>> => pc = "error"

\* bounds [10,-90,-10,91] break the rules 8 and 9: the error is that of rule 8
FirstViolatedRuleReportedWitness ==
    /\ pc = "error"
    /\ args = <<1, 2, <<D(10), D(-90), D(-10), D(91)>>>>
    /\ ViolatedRules = {8, 9}
    /\ err = "Maximum y bounds must be less than or equal to 90"

(***************************************************************************)
(* C5: zoom_generator(z) is the list of the 4^z tiles [z,x,y], pairwise    *)
(* distinct, each valid, in x-major order: [z,x,y] is at position          *)
(* x * 2^z + y (counted from 0).  Stated of the list generate() holds for  *)
(* the zoom level z of its loop.                                           *)
(***************************************************************************)
\* zoom_generator(z) has returned and tiles is as it left it
Enumerated ==
    /\ pc \in {"loop", "mapping", "returned"}
    /\ z >= self.minZoom
    /\ pc = "mapping" => DOMAIN results = {}

EnumerationXMajor ==
    Enumerated =>
        /\ XMajor(tiles, z)
        /\ Distinct(tiles)
        /\ \A i \in 1 .. Len(tiles) : tile_is_valid(tiles[i][1], tiles[i][2], tiles[i][3])

EnumerationXMajorWitness ==
    /\ Enumerated
    /\ z = 2
    /\ Len(tiles) = 16
    /\ tiles[7] = <<2, 1, 2>>

(***************************************************************************)
(* C6: on the filtered path a tile whose box only touches the configured   *)
(* bounds along an edge (the closed boxes share a stretch of boundary but  *)
(* no area) is in the result of its zoom level, whatever bounds the        *)
(* constructor accepted.                                                   *)
(***************************************************************************)
\* boxes t and b share a stretch of positive length of an edge, and no area
TouchesAlongEdge(t, b) ==
    \/ /\ t[3] = b[1] \/ t[1] = b[3]
       /\ Max(t[2], b[2]) < Min(t[4], b[4])
    \/ /\ t[4] = b[2] \/ t[2] = b[4]
       /\ Max(t[1], b[1]) < Min(t[3], b[3])

EdgeTouching(t) ==
    TouchesAlongEdge(bounds_from_tile(t[1], t[2], t[3]), self.bounds)

PointBoundsNonEmpty ==
    (pc = "returned" /\ self.bounds = <<0, 0, 0, 0>>) =>
        /\ Keys(overall_tiles) = ZoomRange
        /\ \A i \in 1 .. Len(overall_tiles) : Len(overall_tiles[i][2]) > 0

(***************************************************************************)
(* C8: when the constructor raises, the attributes minZoom, maxZoom and    *)
(* bounds of the instance have not been assigned.                          *)
(***************************************************************************)
ConstructionAtomic == pc = "error" => DOMAIN self = {}

(***************************************************************************)
(* C9: generate() never raises "Invalid tile": every tile handed to        *)
(* bounds_from_tile is an element of the enumeration of its zoom level and *)
(* has 0 <= x < 2^z and 0 <= y < 2^z, in both variants.                    *)
(***************************************************************************)
NoInvalidTile ==
    /\ pc # "raised"
    /\ err # "Invalid tile"
    /\ pc = "mapping" =>
          \A i \in running :
              LET t == tiles[i]
              IN /\ t \in Candidates(z)
                 /\ ~IsRaise(tile_bounds(t[1], t[2], t[3]))
    /\ pc = "returned" =>
          \A i \in 1 .. Len(overall_tiles) :
              \A j \in 1 .. Len(overall_tiles[i][2]) :
                  ~IsRaise(bounds_from_tile(overall_tiles[i][2][j][1],
                                            overall_tiles[i][2][j][2],
                                            overall_tiles[i][2][j][3]))

\* both zoom levels filtered: 4 + 16 tiles went through bounds_from_tile
NoInvalidTileWitness ==
    /\ pc = "returned"
    /\ evals = 20
    /\ Len(overall_tiles) = 2

(***************************************************************************)
(* C10: in the parallel generate() the entry of zoom z is written only     *)
(* when all the 4^z evaluations of that zoom level are in, the tasks of    *)
(* zoom z+1 are not handed out before the entry of zoom z is written, and  *)
(* generate() returns only when every zoom level of minZoom..maxZoom has   *)
(* its entry: never a result with an evaluation still pending.             *)
(***************************************************************************)
Pending == running # {} \/ DOMAIN results # 1 .. Len(tiles)

NoPartialResults ==
    (strategy = "parallel" /\ pc \in {"loop", "mapping", "returned"}) =>
        /\ \A i \in 1 .. Len(overall_tiles) : overall_tiles[i][1] <= z
        /\ (HasKey(overall_tiles, z) /\ self.bounds # World) =>
              /\ ~Pending
              /\ Len(tiles) = 4 ^ z
        /\ pc = "mapping" =>
              /\ ~HasKey(overall_tiles, z)
              /\ \A k \in self.minZoom .. z - 1 : HasKey(overall_tiles, k)
        /\ pc = "returned" =>
              /\ Keys(overall_tiles) = ZoomRange
              /\ self.bounds # World => ~Pending

\* zoom 1 is written while the evaluations of zoom 2 are under way
NoPartialResultsWitness ==
    /\ strategy = "parallel"
    /\ pc = "mapping"
    /\ z = 2
    /\ HasKey(overall_tiles, 1)
    /\ n_jobs = 4
    /\ running = {3, 9, 10, 16}

====
